---- MODULE Spec2Model ----
(***************************************************************************)
(* data_to_tiles.py: tile reconciliation, tiling, and dataset assembly.    *)
(*                                                                         *)
(* One run of main() is a walk through pc:                                 *)
(*   "validate" -> "tile" (one step per csv row) -> "pool" (parallel jobs) *)
(*   -> "truncate" -> "assemble_open"/"assemble_tile" -> "done",           *)
(* or "aborted" when an exception leaves main().  The file system (tile    *)
(* directories, dataset text files) outlives a run; Rerun starts main()    *)
(* again on it.                                                            *)
(*                                                                         *)
(* Sizes are scaled: a tile edge of 2 stands for 1024 pixels; annotation   *)
(* coverage is carried in tenths of a percent so that int() truncation     *)
(* of the percentage is visible.                                           *)
(***************************************************************************)
EXTENDS Integers, Sequences, FiniteSets, TLC

\* ------------------------------------------------------------------ bounds
\* Most tiles of one suffix a destination directory holds before the first run.
MaxTiles == 3
\* Number of times main() is started on the same inputs and file system.
MaxRuns == 2
\* Largest raster edge and tile edge the checker is probed with.
MaxDim == 5
MaxTileSize == 3
\* Most features of the label collection filter_gdf is probed with.
MaxFeatures == 2

\* ------------------------------------------------------- values and helpers
NoDir == <<>>            \* out_gt_dir = None
NoErr == [kind |-> "none"]
NoLabel == ""            \* info['gpkg'] of a row without a label source

datasets == <<"trn", "val", "tst">>
DatasetSet == {datasets[i] : i \in 1..Len(datasets)}

Max(a, b) == IF a >= b THEN a ELSE b

FloorDiv(a, b) == a \div b

\* math.ceil(a / b) for integers a and b > 0 (true division, then ceiling).
ceil_div(a, b) == -((-a) \div b)

\* aoi_name = Path(info['tif']).stem if not info['aoi'] else info['aoi']
aoi_name(info) == IF info.aoi = "" THEN info.tif ELSE info.aoi

\* root / dataset.strip() / aoi_name.strip() / category.  The root is the same
\* for every call; dataset and area names here carry no surrounding blanks.
out_tiling_dir(dataset, aoi, category) == <<dataset, aoi, category>>

\* Every directory a row can name.
AoiNames == {"a", "b"}
TileDirs == {out_tiling_dir(d, a, c) : d \in DatasetSet, a \in AoiNames,
                                        c \in {"sat_img", "map_img"}}

\* sat_img_tile.parts[-4]: the dataset component of a tile's path.
dataset_of_tile(tile) == tile.dir[1]

\* ---------------------------------------------------------- tiling_checker
\* Expected tile count, lines 64-68.  tile_stride = 0 stands for None.
expected_tiles(width, height, tile_size, tile_stride) ==
    LET stride == IF tile_stride = 0 THEN tile_size ELSE tile_stride
        tiles_x == 1 + ceil_div(width - tile_size, stride)
        tiles_y == 1 + ceil_div(height - tile_size, stride)
    IN tiles_x * tiles_y

\* tiling_checker(src_img, out_tiled_dir, tile_size, tile_stride, out_suffix):
\* nb_in_dir is the number of files with the suffix in out_tiled_dir.
tiling_checker(meta, nb_in_dir, tile_size, tile_stride) ==
    <<nb_in_dir, expected_tiles(meta.width, meta.height, tile_size, tile_stride)>>

\* ------------------------------------------------------- get_src_tile_size
SrcSizeIsDest(dest_tile_size, resize_factor) == dest_tile_size

\* resize_factor = 0 stands for None.
src_tile_size_error(dest_tile_size, resize_factor) ==
    resize_factor # 0 /\ dest_tile_size % resize_factor # 0

get_src_tile_size(dest_tile_size, resize_factor) ==
    IF resize_factor # 0 THEN dest_tile_size \div resize_factor ELSE dest_tile_size

\* ------------------------------------------- the skip / tile decision of main
\* Lines 303-347: do_tile and the level of the message that is logged.
DecisionNoSkipWhenComplete(nogt, act_img_tiles, act_gt_tiles, exp_tiles) ==
    IF nogt
    THEN IF act_img_tiles = exp_tiles THEN [do_tile |-> TRUE, log |-> "info"]
         ELSE IF act_img_tiles > exp_tiles THEN [do_tile |-> TRUE, log |-> "critical"]
         ELSE IF act_img_tiles > 0 THEN [do_tile |-> TRUE, log |-> "critical"]
         ELSE [do_tile |-> TRUE, log |-> "debug"]
    ELSE IF act_img_tiles = act_gt_tiles /\ act_gt_tiles = exp_tiles
         THEN [do_tile |-> TRUE, log |-> "info"]
         ELSE IF act_img_tiles > exp_tiles /\ act_gt_tiles > exp_tiles
         THEN [do_tile |-> FALSE, log |-> "critical"]
         ELSE IF act_img_tiles > 0 \/ act_gt_tiles > 0
         THEN [do_tile |-> TRUE, log |-> "critical"]
         ELSE [do_tile |-> TRUE, log |-> "debug"]

tiling_decision(nogt, act_img_tiles, act_gt_tiles, exp_tiles) ==
    IF nogt
    THEN IF act_img_tiles = exp_tiles THEN [do_tile |-> FALSE, log |-> "info"]
         ELSE IF act_img_tiles > exp_tiles THEN [do_tile |-> TRUE, log |-> "critical"]
         ELSE IF act_img_tiles > 0 THEN [do_tile |-> TRUE, log |-> "critical"]
         ELSE [do_tile |-> TRUE, log |-> "debug"]
    ELSE IF act_img_tiles = act_gt_tiles /\ act_gt_tiles = exp_tiles
         THEN [do_tile |-> FALSE, log |-> "info"]
         ELSE IF act_img_tiles > exp_tiles /\ act_gt_tiles > exp_tiles
         THEN [do_tile |-> FALSE, log |-> "critical"]
         ELSE IF act_img_tiles > 0 \/ act_gt_tiles > 0
         THEN [do_tile |-> TRUE, log |-> "critical"]
         ELSE [do_tile |-> TRUE, log |-> "debug"]

\* ------------------------------------------------------------------ tiling
\* Number of tiles the raster tiler writes for a source raster cut with
\* src_tile_size (non-overlapping grid).
raster_tiler_tiles(meta, src_tile_size) ==
    expected_tiles(meta.width, meta.height, src_tile_size, 0)

\* tiling(src_img, out_img_dir, tile_size, bands_idxs, resize, out_label_dir,
\* src_label), lines 120-130, as its effect on the tile directories.  Tiles of
\* the grid are named by their position, so writing n tiles into a directory
\* that holds m files of the same suffix leaves Max(m, n) files.
tiling(files, job) ==
    LET src_tile_size == get_src_tile_size(job.tile_size, job.resize)
        n == raster_tiler_tiles(job.meta, src_tile_size)
        with_img == [files EXCEPT ![job.out_img_dir] = Max(@, n)]
    IN IF job.out_label_dir # NoDir /\ job.src_label # NoLabel
       THEN [with_img EXCEPT ![job.out_label_dir] = Max(@, n)]
       ELSE with_img

\* ------------------------------------------------------------------- state
VARIABLES
    list_data_prep,   \* rows of the csv, each with its raster's width and height
    params,           \* the configuration main() reads
    files,            \* tile directory -> number of tiles in it (.tif in sat_img,
                      \* .geojson in map_img)
    dataset_files,    \* dataset -> lines of <experiment>_<dataset>.txt (<<>>: no file)
    pc, run,          \* position in main(), and which start of main() this is
    idx,              \* row the current loop is at
    no_gt,            \* main's no_gt flag
    recon,            \* per row: the tiles in its two directories when the tiling
                      \* loop reached it, the expected count, the decision, the log level
    input_args,       \* jobs collected for the pool
    pending,          \* indexes of input_args the pool has not run yet
    ran,              \* the tiling jobs that were run, in order
    listing, k,       \* imgs_tiled / gts_tiled of the current row, and tile index
    datasets_kept, datasets_total,
    rng_pos,          \* draws taken from numpy's global generator in this run
    masks,            \* image tiles a pixel mask was burned for in this run
    err,              \* the exception that leaves main()
    job_errors,       \* rows whose tiling job raised in this run
    cut_with,         \* row -> src_tile_size its job cut the raster with (0: no job)
    logged_errors,    \* rows whose exception was caught and logged at lines 357-360
    files0,           \* the tile directories as they were when this run started
    prev,             \* how the previous run ended: its lists and tile directories
    probe             \* a direct call of tiling_checker: its arguments and result

vars == <<list_data_prep, params, files, dataset_files, pc, run, idx, no_gt, recon,
          input_args, pending, ran, listing, k, datasets_kept, datasets_total,
          rng_pos, masks, err, job_errors, logged_errors, cut_with,
          files0, prev, probe>>

inputs == <<list_data_prep, params>>

\* ------------------------------------------------------------------ inputs
\* job_fault: what tiling() raises for this row's source ("none": it succeeds).
Row1Set == {[tif |-> "a", gpkg |-> g, dataset |-> d, aoi |-> "", width |-> 4, height |-> 2,
             job_fault |-> "none", crs_ok |-> TRUE] :
                g \in {NoLabel, "a.gpkg"}, d \in {"trn", "tst"}}
\* The second row names no area (its file stem "b" is used) or the first row's.
Row2Set == {[tif |-> "b", gpkg |-> g, dataset |-> d, aoi |-> a, width |-> 2, height |-> 2,
             job_fault |-> "none", crs_ok |-> TRUE] :
                g \in {NoLabel, "b.gpkg"}, d \in {"trn", "tst"}, a \in {"", "a"}}
\* Which row's tiling job raises OSError (0: none does).
FaultRows == {0, 1, 2}
with_fault(row, faulty) == IF faulty THEN [row EXCEPT !.job_fault = "OSError"] ELSE row

\* Inputs off the common path, one at a time: a resize factor other than the
\* default 1 (0: None), a label source whose CRS is not the raster's (row 1),
\* a row whose dataset is neither "trn" nor "tst".
Usual == [resize |-> 1, crs_bad |-> 0, bad_dataset |-> 0]
VariantSet ==
    {Usual} \cup {[Usual EXCEPT !.resize = r] : r \in {0, 2, 3}}
            \cup {[Usual EXCEPT !.crs_bad = 1]}
            \cup {[Usual EXCEPT !.bad_dataset = i] : i \in 1..2}
with_variant(row, i, variant) ==
    [row EXCEPT !.crs_ok = (variant.crs_bad # i),
                !.dataset = IF variant.bad_dataset = i THEN "val" ELSE @]
\* Tiles in the second row's directories before the first run: <<.tif, .geojson>>.
Row2Tiles == {<<0, 0>>, <<1, 1>>, <<1, 0>>, <<2, 2>>}

\* samples_size 2 stands for the default 1024; val_percent 10 is the default.
ConfigSet ==
    { [samples_size |-> 2, resize |-> 1, min_annot_perc |-> 0,
       min_raster_tile_size |-> 0, val_percent |-> 10],
      [samples_size |-> 2, resize |-> 1, min_annot_perc |-> 15,
       min_raster_tile_size |-> 1, val_percent |-> 10],
      [samples_size |-> 2, resize |-> 1, min_annot_perc |-> 15,
       min_raster_tile_size |-> 0, val_percent |-> 50] }

\* The configuration with every default of lines 204-221.
DefaultConfig == [samples_size |-> 2, resize |-> 1, min_annot_perc |-> 0,
                  min_raster_tile_size |-> 0, val_percent |-> 10]

\* np.random.randint(1, 100) after np.random.seed: a fixed stream of integers
\* in 1..99.  The stream is one of the rotations of DrawCycle.
DrawCycle == <<1, 9, 10, 99, 49, 50>>
SeedSet == {0, 2}
random_draw(seed, pos) == DrawCycle[((seed + pos) % Len(DrawCycle)) + 1]

\* What the tiler and the label source put into a tile: the image tile's file
\* size in bytes, and the area of the filtered label features as tenths of a
\* percent of the tile's extent.
st_size(tile) == IF tile.k % 2 = 0 THEN 0 ELSE 8
AnnotCycle == [a |-> <<200, 149, 0>>, b |-> <<95, 150, 1000>>]
annot_permille(tile) ==
    LET c == AnnotCycle[tile.dir[2]] IN c[((tile.k - 1) % Len(c)) + 1]

NoProbe == [fn |-> "none"]
NoListing == [imgs |-> 0, gts |-> 0]
NoPrev == [ended |-> "none"]
NoCuts == [i \in 1..2 |-> 0]

RowIdx == 1..2
FreshRecon == [i \in RowIdx |-> [state |-> "pending"]]
ZeroCounts == [d \in DatasetSet |-> 0]

StartOfMain ==
    /\ pc = "validate" /\ idx = 1 /\ no_gt = FALSE
    /\ recon = FreshRecon /\ input_args = <<>> /\ pending = {} /\ ran = <<>>
    /\ listing = NoListing /\ k = 0
    /\ datasets_kept = ZeroCounts /\ datasets_total = ZeroCounts
    /\ rng_pos = 0 /\ masks = {} /\ err = NoErr
    /\ job_errors = {} /\ logged_errors = {} /\ cut_with = NoCuts

Init ==
    /\ \E r1 \in Row1Set, two \in BOOLEAN, r2 \in Row2Set, f \in FaultRows,
          n1 \in (0..MaxTiles) \X (0..MaxTiles), n2 \in Row2Tiles, variant \in VariantSet,
          c \in ConfigSet, par \in BOOLEAN, s \in SeedSet :
          /\ list_data_prep =
                IF two THEN <<with_variant(with_fault(r1, f = 1), 1, variant),
                              with_variant(with_fault(r2, f = 2), 2, variant)>>
                ELSE <<with_variant(with_fault(r1, f = 1), 1, variant)>>
          /\ (two \/ r2 = CHOOSE r \in Row2Set : TRUE)
          /\ (two \/ n2 = <<0, 0>>)
          /\ (two \/ f # 2)
          /\ (variant = Usual \/ (f = 0 /\ s = 0 /\ r2.aoi = "" /\ c = DefaultConfig))
          /\ (variant.crs_bad = 1 => r1.gpkg # NoLabel)
          /\ (variant.bad_dataset = 2 => two)
          /\ params = [parallel |-> par, samples_size |-> c.samples_size,
                       resize |-> variant.resize,
                       min_annot_perc |-> c.min_annot_perc,
                       min_raster_tile_size |-> c.min_raster_tile_size,
                       val_percent |-> c.val_percent, seed |-> s]
          /\ files = [d \in TileDirs |->
                IF d = out_tiling_dir(r1.dataset, aoi_name(r1), "sat_img") THEN n1[1]
                ELSE IF d = out_tiling_dir(r1.dataset, aoi_name(r1), "map_img") THEN n1[2]
                ELSE IF ~two THEN 0
                ELSE IF d = out_tiling_dir(r2.dataset, aoi_name(r2), "sat_img") THEN n2[1]
                ELSE IF d = out_tiling_dir(r2.dataset, aoi_name(r2), "map_img") THEN n2[2]
                ELSE 0]
    /\ dataset_files = [d \in DatasetSet |-> <<>>]
    /\ run = 1
    /\ StartOfMain
    /\ files0 = files
    /\ prev = NoPrev
    /\ probe = NoProbe

\* ----------------------------------------------------- main: validation gate
\* Line 279.
AnyDatasetValid(dataset) == TRUE

valid_dataset(dataset) == dataset \in {"trn", "tst"}

\* assert_crs_match (verifications.py 142-171): logs an error and returns False
\* first when the two EPSG codes differ; it does not raise on a mismatch.
assert_crs_match(info) == <<info.crs_ok, IF info.crs_ok THEN "none" ELSE "error">>

\* Lines 259-280.  The raster's metadata is taken as validate_raster hands it to
\* main; the return value of assert_crs_match is not used by main.
Validate ==
    /\ pc = "validate"
    /\ LET rows == DOMAIN list_data_prep
           bad == {i \in rows : ~valid_dataset(list_data_prep[i].dataset)}
           upto == IF bad = {} THEN Len(list_data_prep)
                   ELSE CHOOSE i \in bad : \A j \in bad : i <= j
       IN /\ no_gt' = (\E i \in 1..upto : list_data_prep[i].gpkg = NoLabel)
          /\ IF bad = {}
             THEN pc' = "tile" /\ UNCHANGED err
             ELSE pc' = "aborted" /\ err' = [kind |-> "ValueError", at |-> "validate"]
    /\ UNCHANGED <<inputs, files, dataset_files, run, idx, recon, input_args, pending,
                   ran, listing, k, datasets_kept, datasets_total, rng_pos, masks,
                   job_errors, logged_errors, cut_with, files0,
                   prev, probe>>

\* ------------------------------------------------------- main: tiling loop
\* Lines 350-355: a needed job is run inside the loop in sequential mode and
\* appended to input_args in parallel mode.
RunsInLoopAlways(parallel, do_tile) == do_tile

runs_in_loop(parallel, do_tile) == do_tile /\ ~parallel

is_queued(parallel, do_tile) == do_tile /\ parallel

\* One iteration of the loop of lines 296-360: the checker, the decision, and
\* the job, which is run on the spot or appended to input_args.  An OSError of
\* the job is caught by the handler of lines 357-360, which logs it and goes on
\* with the next row; any other exception leaves main.
TileRow ==
    /\ pc = "tile"
    /\ LET info == list_data_prep[idx]
           aoi == aoi_name(info)
           out_img_dir == out_tiling_dir(info.dataset, aoi, "sat_img")
           map_dir == out_tiling_dir(info.dataset, aoi, "map_img")
           out_gt_dir == IF no_gt THEN NoDir ELSE map_dir
           chk == tiling_checker(info, files[out_img_dir], params.samples_size, 0)
           act_img_tiles == chk[1]
           exp_tiles == chk[2]
           act_gt_tiles == IF no_gt THEN 0
                           ELSE tiling_checker(info, files[out_gt_dir],
                                               params.samples_size, 0)[1]
           dec == tiling_decision(no_gt, act_img_tiles, act_gt_tiles, exp_tiles)
           job == [fn |-> "tiling", row |-> idx, src_img |-> info.tif,
                   meta |-> [width |-> info.width, height |-> info.height],
                   out_img_dir |-> out_img_dir, tile_size |-> params.samples_size,
                   resize |-> params.resize, out_label_dir |-> out_gt_dir,
                   src_label |-> info.gpkg]
           last == idx = Len(list_data_prep)
           run_now == runs_in_loop(params.parallel, dec.do_tile)
           raises == run_now /\ src_tile_size_error(job.tile_size, job.resize)
           os_error == run_now /\ ~raises /\ info.job_fault = "OSError"
           queue == IF is_queued(params.parallel, dec.do_tile)
                    THEN Append(input_args, job) ELSE input_args
       IN /\ recon' = [recon EXCEPT ![idx] =
                 [state |-> IF dec.do_tile THEN "tile" ELSE "skip", log |-> dec.log,
                  img |-> files[out_img_dir], gt |-> files[map_dir], exp |-> exp_tiles,
                  chk_tile_size |-> params.samples_size, chk_stride |-> 0]]
          /\ input_args' = queue
          /\ files' = IF run_now /\ ~raises /\ ~os_error THEN tiling(files, job) ELSE files
          /\ ran' = IF run_now /\ ~raises THEN Append(ran, job) ELSE ran
          /\ job_errors' = IF os_error THEN job_errors \cup {idx} ELSE job_errors
          /\ logged_errors' = IF os_error THEN logged_errors \cup {idx} ELSE logged_errors
          /\ cut_with' = IF run_now /\ ~raises /\ ~os_error
                         THEN [cut_with EXCEPT ![idx] =
                                  get_src_tile_size(job.tile_size, job.resize)]
                         ELSE cut_with
          /\ IF raises
             THEN /\ pc' = "aborted"
                  /\ err' = [kind |-> "ValueError", at |-> "tiling"]
                  /\ UNCHANGED <<idx, pending>>
             ELSE /\ UNCHANGED err
                  /\ idx' = IF last THEN 1 ELSE idx + 1
                  /\ pending' = IF last THEN DOMAIN queue ELSE pending
                  /\ pc' = IF ~last THEN "tile"
                           ELSE IF params.parallel /\ queue # <<>> THEN "pool"
                           ELSE "truncate"
    /\ UNCHANGED <<inputs, dataset_files, run, no_gt, listing, k, datasets_kept,
                   datasets_total, rng_pos, masks, files0, prev, probe>>

\* pool.map(map_wrapper, input_args), lines 362-365: the workers take the jobs in
\* any order; an exception of a job is raised again by pool.map in main, where
\* nothing catches it.  pool.map hands the first exception over once the other
\* jobs are through (wait) or as soon as it has it, and leaving the with block
\* then terminates the workers.
PoolJob ==
    /\ pc = "pool"
    /\ \E j \in pending, wait \in BOOLEAN :
          LET job == input_args[j]
              raises == src_tile_size_error(job.tile_size, job.resize)
              os_error == list_data_prep[job.row].job_fault = "OSError"
              left == pending \ {j}
              failed == os_error \/ err.kind # "none"
          IN IF raises
             THEN /\ pc' = "aborted"
                  /\ err' = [kind |-> "ValueError", at |-> "tiling"]
                  /\ UNCHANGED <<files, ran, pending, job_errors, cut_with>>
             ELSE /\ files' = IF os_error THEN files ELSE tiling(files, job)
                  /\ cut_with' = IF os_error THEN cut_with
                                 ELSE [cut_with EXCEPT ![job.row] =
                                          get_src_tile_size(job.tile_size, job.resize)]
                  /\ ran' = Append(ran, job)
                  /\ pending' = left
                  /\ job_errors' = IF os_error THEN job_errors \cup {job.row}
                                   ELSE job_errors
                  /\ err' = IF os_error /\ err.kind = "none"
                            THEN [kind |-> "OSError", at |-> "pool"] ELSE err
                  /\ pc' = IF failed /\ (left = {} \/ ~wait) THEN "aborted"
                           ELSE IF left = {} THEN "truncate" ELSE "pool"
    /\ UNCHANGED <<inputs, dataset_files, run, idx, no_gt, recon, input_args, listing, k,
                   datasets_kept, datasets_total, rng_pos, masks, logged_errors, files0,
                   prev, probe>>

\* ------------------------------------------------- main: dataset text files
\* Lines 369-373: every dataset list that exists is unlinked.
UnlinkAllButVal(lists) == [d \in DatasetSet |-> IF d = "val" THEN lists[d] ELSE <<>>]

unlink_lists(lists) == [d \in DatasetSet |-> <<>>]

\* Lines 367-376.
Truncate ==
    /\ pc = "truncate"
    /\ dataset_files' = unlink_lists(dataset_files)
    /\ datasets_kept' = ZeroCounts
    /\ datasets_total' = ZeroCounts
    /\ pc' = "assemble_open"
    /\ idx' = 1
    /\ UNCHANGED <<inputs, files, run, no_gt, recon, input_args, pending, ran, listing, k,
                   rng_pos, masks, err, job_errors, logged_errors, cut_with, files0,
                   prev, probe>>

\* with open(dataset_files[dataset], 'a') as dataset_file: dataset_file.write(...)
\* A line is the text written; wrote_in records which run wrote it.
AppendLineTwice(lists, dataset, text, r) ==
    [lists EXCEPT ![dataset] = Append(Append(@, [text |-> text, wrote_in |-> r]),
                                      [text |-> text, wrote_in |-> r])]

append_line(lists, dataset, text, r) ==
    [lists EXCEPT ![dataset] = Append(@, [text |-> text, wrote_in |-> r])]

\* ---------------------------------------------------- main: assembly loop
\* Lines 378-409: the listing of a row's tiles and the branch taken on it.
AssembleOpen ==
    /\ pc = "assemble_open"
    /\ LET info == list_data_prep[idx]
           aoi == aoi_name(info)
           imgs == files[out_tiling_dir(info.dataset, aoi, "sat_img")]
           gts == files[out_tiling_dir(info.dataset, aoi, "map_img")]
           last == idx = Len(list_data_prep)
       IN IF imgs > 0 /\ gts = 0
          THEN /\ listing' = [imgs |-> imgs, gts |-> gts]
               /\ k' = 1
               /\ pc' = "assemble_tile"
               /\ UNCHANGED <<idx, err>>
          ELSE IF imgs # gts
          THEN /\ pc' = "aborted"
               /\ err' = [kind |-> "IOError", at |-> "assemble",
                          msg |-> [imgs_tiled |-> imgs, gts_tiled |-> gts]]
               /\ UNCHANGED <<idx, listing, k>>
          ELSE IF imgs = 0
          THEN /\ pc' = IF last THEN "done" ELSE "assemble_open"
               /\ idx' = IF last THEN idx ELSE idx + 1
               /\ UNCHANGED <<listing, k, err>>
          ELSE /\ listing' = [imgs |-> imgs, gts |-> gts]
               /\ k' = 1
               /\ pc' = "assemble_tile"
               /\ UNCHANGED <<idx, err>>
    /\ UNCHANGED <<inputs, files, dataset_files, run, no_gt, recon, input_args, pending,
                   ran, datasets_kept, datasets_total, rng_pos, masks, job_errors,
                   logged_errors, cut_with, files0,
                   prev, probe>>

\* Lines 428-450 for one image / label tile pair that passed the size filter:
\* which list gets the line, which counters move, whether a draw is taken.
\* "" stands for no list / no counter.
OutcomeDrawLeq(dataset, annot, min_annot_perc, val_percent, random_val) ==
    IF dataset \in {"trn", "train"}
    THEN IF annot >= min_annot_perc * 10
         THEN LET dest == IF random_val <= val_percent THEN "val" ELSE dataset
              IN [line |-> dest, kept |-> dest, total |-> dest, draw |-> TRUE, burn |-> TRUE]
         ELSE [line |-> "", kept |-> "", total |-> dataset, draw |-> FALSE, burn |-> FALSE]
    ELSE IF dataset \in {"tst", "test"}
    THEN [line |-> dataset, kept |-> dataset, total |-> dataset, draw |-> FALSE, burn |-> TRUE]
    ELSE [line |-> "", kept |-> "", total |-> "", draw |-> FALSE, burn |-> FALSE]

OutcomeNoTotalBelow(dataset, annot, min_annot_perc, val_percent, random_val) ==
    IF dataset \in {"trn", "train"}
    THEN IF annot >= min_annot_perc * 10
         THEN LET dest == IF random_val < val_percent THEN "val" ELSE dataset
              IN [line |-> dest, kept |-> dest, total |-> dest, draw |-> TRUE, burn |-> TRUE]
         ELSE [line |-> "", kept |-> "", total |-> "", draw |-> FALSE, burn |-> FALSE]
    ELSE IF dataset \in {"tst", "test"}
    THEN [line |-> dataset, kept |-> dataset, total |-> dataset, draw |-> FALSE, burn |-> TRUE]
    ELSE [line |-> "", kept |-> "", total |-> "", draw |-> FALSE, burn |-> FALSE]

OutcomeTestThreshold(dataset, annot, min_annot_perc, val_percent, random_val) ==
    IF dataset \in {"trn", "train"}
    THEN IF annot >= min_annot_perc * 10
         THEN LET dest == IF random_val < val_percent THEN "val" ELSE dataset
              IN [line |-> dest, kept |-> dest, total |-> dest, draw |-> TRUE, burn |-> TRUE]
         ELSE [line |-> "", kept |-> "", total |-> dataset, draw |-> FALSE, burn |-> FALSE]
    ELSE IF dataset \in {"tst", "test"}
    THEN IF annot >= min_annot_perc * 10
         THEN [line |-> dataset, kept |-> dataset, total |-> dataset, draw |-> FALSE,
               burn |-> TRUE]
         ELSE [line |-> "", kept |-> "", total |-> dataset, draw |-> FALSE, burn |-> FALSE]
    ELSE [line |-> "", kept |-> "", total |-> "", draw |-> FALSE, burn |-> FALSE]

OutcomeTotalOnSource(dataset, annot, min_annot_perc, val_percent, random_val) ==
    IF dataset \in {"trn", "train"}
    THEN IF annot >= min_annot_perc * 10
         THEN LET dest == IF random_val < val_percent THEN "val" ELSE dataset
              IN [line |-> dest, kept |-> dest, total |-> dataset, draw |-> TRUE,
                  burn |-> TRUE]
         ELSE [line |-> "", kept |-> "", total |-> dataset, draw |-> FALSE, burn |-> FALSE]
    ELSE IF dataset \in {"tst", "test"}
    THEN [line |-> dataset, kept |-> dataset, total |-> dataset, draw |-> FALSE, burn |-> TRUE]
    ELSE [line |-> "", kept |-> "", total |-> "", draw |-> FALSE, burn |-> FALSE]

pair_outcome(dataset, annot, min_annot_perc, val_percent, random_val) ==
    IF dataset \in {"trn", "train"}
    THEN IF annot >= min_annot_perc * 10
         THEN LET dest == IF random_val < val_percent THEN "val" ELSE dataset
              IN [line |-> dest, kept |-> dest, total |-> dest, draw |-> TRUE, burn |-> TRUE]
         ELSE [line |-> "", kept |-> "", total |-> dataset, draw |-> FALSE, burn |-> FALSE]
    ELSE IF dataset \in {"tst", "test"}
    THEN [line |-> dataset, kept |-> dataset, total |-> dataset, draw |-> FALSE, burn |-> TRUE]
    ELSE [line |-> "", kept |-> "", total |-> "", draw |-> FALSE, burn |-> FALSE]

bump(counts, dataset) ==
    IF dataset = "" THEN counts ELSE [counts EXCEPT ![dataset] = @ + 1]

\* Lines 399 and 412.
NeverTooSmall(sat_size, min_raster_tile_size) == FALSE

below_min_size(sat_size, min_raster_tile_size) == sat_size < min_raster_tile_size

\* The tile the assembly loop is at, and the row's label directory.
CurTile ==
    [dir |-> out_tiling_dir(list_data_prep[idx].dataset, aoi_name(list_data_prep[idx]),
                            "sat_img"), k |-> k]
CurMapDir ==
    out_tiling_dir(list_data_prep[idx].dataset, aoi_name(list_data_prep[idx]), "map_img")

\* One iteration of the loop of lines 397-404 (imagery only) or 410-450 (pairs).
AssembleTile ==
    /\ pc = "assemble_tile"
    /\ LET sat_img_tile == CurTile
           out_px_mask == [dir |-> CurMapDir, k |-> k]
           sat_size == st_size(sat_img_tile)
           dataset == dataset_of_tile(sat_img_tile)
           annot == annot_permille(sat_img_tile)
           o == pair_outcome(dataset, annot, params.min_annot_perc, params.val_percent,
                             random_draw(params.seed, rng_pos))
           last_tile == k = listing.imgs
           last == idx = Len(list_data_prep)
       IN /\ IF below_min_size(sat_size, params.min_raster_tile_size)
             THEN UNCHANGED <<dataset_files, datasets_kept, datasets_total, rng_pos, masks>>
             ELSE IF listing.gts = 0
             THEN /\ dataset_files' = append_line(dataset_files, dataset,
                                                  <<sat_img_tile>>, run)
                  /\ UNCHANGED <<datasets_kept, datasets_total, rng_pos, masks>>
             ELSE /\ dataset_files' =
                        IF o.line = "" THEN dataset_files
                        ELSE append_line(dataset_files, o.line,
                                         <<sat_img_tile, out_px_mask, annot \div 10>>, run)
                  /\ datasets_kept' = bump(datasets_kept, o.kept)
                  /\ datasets_total' = bump(datasets_total, o.total)
                  /\ rng_pos' = IF o.draw THEN rng_pos + 1 ELSE rng_pos
                  /\ masks' = IF o.burn THEN masks \cup {sat_img_tile} ELSE masks
          /\ k' = IF last_tile THEN 0 ELSE k + 1
          /\ idx' = IF last_tile /\ ~last THEN idx + 1 ELSE idx
          /\ pc' = IF ~last_tile THEN "assemble_tile"
                   ELSE IF last THEN "done" ELSE "assemble_open"
          /\ listing' = IF last_tile THEN NoListing ELSE listing
    /\ UNCHANGED <<inputs, files, run, no_gt, recon, input_args, pending, ran, err,
                   job_errors, logged_errors, cut_with, files0,
                   prev, probe>>

\* The text of the lines of the dataset lists.
list_texts(lists) ==
    [d \in DatasetSet |-> [i \in DOMAIN lists[d] |-> lists[d][i].text]]

\* np.random.seed(1234), line 12: the position in the stream after seeding.
SeedKeepsPosition(pos) == pos

np_random_seed(pos) == 0

\* main() is started again on the same inputs; np.random.seed(1234) at import
\* puts the generator back to the start of its stream.
Rerun ==
    /\ pc \in {"done", "aborted"}
    /\ run < MaxRuns
    /\ run' = run + 1
    /\ pc' = "validate" /\ idx' = 1 /\ no_gt' = FALSE
    /\ recon' = FreshRecon /\ input_args' = <<>> /\ pending' = {} /\ ran' = <<>>
    /\ listing' = NoListing /\ k' = 0
    /\ datasets_kept' = ZeroCounts /\ datasets_total' = ZeroCounts
    /\ rng_pos' = np_random_seed(rng_pos) /\ masks' = {} /\ err' = NoErr
    /\ job_errors' = {} /\ logged_errors' = {} /\ cut_with' = NoCuts
    /\ files0' = files
    /\ prev' = [ended |-> pc, lists |-> list_texts(dataset_files), files |-> files,
                tiled |-> {ran[j].row : j \in DOMAIN ran} \ job_errors]
    /\ UNCHANGED <<inputs, files, dataset_files, probe>>

Next ==
    \/ Validate
    \/ TileRow
    \/ PoolJob
    \/ Truncate
    \/ AssembleOpen
    \/ AssembleTile
    \/ Rerun

Spec == Init /\ [][Next]_vars

\* ------------------------------------------------ tiling_checker on its own
\* The checker called with any raster size, tile size and stride (0: not given).
\* out_tiled_dir as the file system has it: whether it exists, and the
\* number of files with the suffix in it.
\* len(list(out_tiled_dir.glob(...))), line 69: nothing is listed in a
\* directory that does not exist.
glob_count(dir) == IF dir.exists THEN dir.n ELSE 0

\* What a call of tiling_checker does to out_tiled_dir (lines 49-73): it only
\* lists it.
CheckerMakesDir(dir) == [dir EXCEPT !.exists = TRUE]

checker_leaves(dir) == dir

InitChecker ==
    /\ \E w \in 0..MaxDim, h \in 0..MaxDim, t \in 1..MaxTileSize, s \in 0..MaxTileSize,
          n \in 0..1, e \in BOOLEAN :
          /\ (e \/ n = 0)
          /\ probe = [fn |-> "tiling_checker", width |-> w, height |-> h, tile_size |-> t,
                      tile_stride |-> s, nb_in_dir |-> n, called |-> FALSE,
                      out |-> <<0, 0>>, dir_exists |-> e,
                      dir |-> [exists |-> e, n |-> n], again |-> FALSE,
                      out2 |-> <<0, 0>>]
    /\ list_data_prep = <<>>
    /\ params = [parallel |-> FALSE]
    /\ files = [d \in TileDirs |-> 0]
    /\ dataset_files = [d \in DatasetSet |-> <<>>]
    /\ run = 1
    /\ StartOfMain
    /\ files0 = files
    /\ prev = NoPrev

CallChecker ==
    /\ probe.fn = "tiling_checker"
    /\ ~probe.called
    /\ probe' = [probe EXCEPT !.called = TRUE,
                              !.out = tiling_checker(probe, glob_count(probe.dir),
                                                     probe.tile_size, probe.tile_stride),
                              !.dir = checker_leaves(@)]
    /\ UNCHANGED <<inputs, files, dataset_files, pc, run, idx, no_gt, recon, input_args,
                   pending, ran, listing, k, datasets_kept, datasets_total, rng_pos,
                   masks, err, job_errors, logged_errors, cut_with,
                   files0, prev>>

\* A second call with the same arguments, nothing else in between.
CallCheckerAgain ==
    /\ probe.fn = "tiling_checker"
    /\ probe.called /\ ~probe.again
    /\ probe' = [probe EXCEPT !.again = TRUE,
                              !.out2 = tiling_checker(probe, glob_count(probe.dir),
                                                      probe.tile_size, probe.tile_stride),
                              !.dir = checker_leaves(@)]
    /\ UNCHANGED <<inputs, files, dataset_files, pc, run, idx, no_gt, recon, input_args,
                   pending, ran, listing, k, datasets_kept, datasets_total, rng_pos,
                   masks, err, job_errors, logged_errors, cut_with,
                   files0, prev>>

NextChecker ==
    \/ CallChecker
    \/ CallCheckerAgain

SpecChecker == InitChecker /\ [][NextChecker]_vars

\* ---------------------------------------------------- filter_gdf on its own
\* Attribute values are Python ints or strs.  == between an int and a str is
\* False; str() of an int is its decimal text.
PyInt(n) == [t |-> "int", v |-> n]
PyStr(x) == [t |-> "str", v |-> x]
Decimal == <<"1", "2">>
py_eq(a, b) == a.t = b.t /\ a.v = b.v
py_str(val) == IF val.t = "int" THEN PyStr(Decimal[val.v]) ELSE val
CellValues == {PyInt(1), PyInt(2), PyStr("1"), PyStr("2")}

\* A field name is the sequence of its '/'-separated segments; None and ''
\* are the empty sequence.  attr_vals None and [] are the empty sequence.
NoField == <<>>
AttrFields == {NoField, <<"class">>, <<"meta", "class">>, <<"meta", "kind">>}
AttrValsSet == {<<>>, <<PyInt(1)>>, <<PyStr("1")>>, <<PyInt(1), PyInt(2)>>,
                <<PyInt(2), PyStr("1")>>}
\* The attribute column of the label file, next to its geometry column.
AttrColumns == {<<"class">>, <<"meta", "class">>, <<"code">>}

\* A GeoDataFrame: its columns and its features, each with its value in the
\* attribute column.
FeatureLists ==
    UNION {[1..n -> CellValues] : n \in 0..MaxFeatures}
gdf_of(col, cells) ==
    [columns |-> {col, <<"geometry">>},
     rows |-> [i \in DOMAIN cells |-> [id |-> i, val |-> cells[i]]]]

\* Line 142.
NoFilterOnlyField(attr_field, attr_vals) == attr_field = NoField

no_filter_requested(attr_field, attr_vals) == attr_field = NoField \/ attr_vals = <<>>

\* attr_field.split('/')[-1], line 145.
FirstSegment(attr_field) == <<attr_field[1]>>

last_segment(attr_field) == <<attr_field[Len(attr_field)]>>

\* Lines 147-148 for one cell and one accepted value.
MatchesNative(cell, val) == py_eq(cell, val)

value_matches(cell, val) == py_eq(cell, val) \/ py_eq(cell, py_str(val))

\* Lines 131-154.  same: the object returned is the argument itself, not a
\* copy of it.
filter_gdf(gdf, attr_field, attr_vals) ==
    IF no_filter_requested(attr_field, attr_vals)
    THEN [same |-> TRUE, value |-> gdf, logged |-> FALSE, raised |-> "none"]
    ELSE LET field == IF attr_field \in gdf.columns THEN attr_field
                      ELSE last_segment(attr_field)
         IN IF attr_vals = <<>>
            THEN [same |-> TRUE, value |-> gdf, logged |-> FALSE, raised |-> "TypeError"]
            ELSE IF field \notin gdf.columns
            THEN [same |-> TRUE, value |-> gdf, logged |-> TRUE, raised |-> "none"]
            ELSE [same |-> FALSE,
                  value |-> [gdf EXCEPT !.rows =
                      SelectSeq(gdf.rows, LAMBDA f :
                          \E j \in DOMAIN attr_vals : value_matches(f.val, attr_vals[j]))],
                  logged |-> FALSE, raised |-> "none"]

\* heap[1] is the GeoDataFrame object handed to filter_gdf; ret is the object
\* it returned (0: not called yet, or it raised).
InitFilter ==
    /\ \E col \in AttrColumns, cells \in FeatureLists, fld \in AttrFields,
          vals \in AttrValsSet :
          probe = [fn |-> "filter_gdf", given |-> gdf_of(col, cells),
                   heap |-> <<gdf_of(col, cells)>>, attr_field |-> fld,
                   attr_vals |-> vals, called |-> FALSE, ret |-> 0,
                   logged |-> FALSE, raised |-> "none", mutated |-> FALSE]
    /\ list_data_prep = <<>>
    /\ params = [parallel |-> FALSE]
    /\ files = [d \in TileDirs |-> 0]
    /\ dataset_files = [d \in DatasetSet |-> <<>>]
    /\ run = 1
    /\ StartOfMain
    /\ files0 = files
    /\ prev = NoPrev

CallFilter ==
    /\ probe.fn = "filter_gdf"
    /\ ~probe.called
    /\ LET r == filter_gdf(probe.heap[1], probe.attr_field, probe.attr_vals)
       IN probe' = [probe EXCEPT
                       !.called = TRUE,
                       !.heap = IF r.same THEN @ ELSE Append(@, r.value),
                       !.ret = IF r.raised # "none" THEN 0
                               ELSE IF r.same THEN 1 ELSE 2,
                       !.logged = r.logged,
                       !.raised = r.raised]
    /\ UNCHANGED <<inputs, files, dataset_files, pc, run, idx, no_gt, recon, input_args,
                   pending, ran, listing, k, datasets_kept, datasets_total, rng_pos,
                   masks, err, job_errors, logged_errors, cut_with,
                   files0, prev>>

\* The caller changes the collection it got back: it adds a column to it.
MutateResult ==
    /\ probe.fn = "filter_gdf"
    /\ probe.called /\ probe.ret # 0 /\ ~probe.mutated
    /\ probe' = [probe EXCEPT !.mutated = TRUE,
                              !.heap[probe.ret].columns = @ \cup {<<"burn">>}]
    /\ UNCHANGED <<inputs, files, dataset_files, pc, run, idx, no_gt, recon, input_args,
                   pending, ran, listing, k, datasets_kept, datasets_total, rng_pos,
                   masks, err, job_errors, logged_errors, cut_with,
                   files0, prev>>

NextFilter ==
    \/ CallFilter
    \/ MutateResult

SpecFilter == InitFilter /\ [][NextFilter]_vars

\* ================================================================== claims
Rows == DOMAIN list_data_prep
Decided(i) == recon[i].state # "pending"
Labeled(i) == list_data_prep[i].gpkg # NoLabel
\* No tiling job of row i was collected for the pool or run.
NoJobFor(i) ==
    /\ \A j \in DOMAIN input_args : input_args[j].row # i
    /\ \A j \in DOMAIN ran : ran[j].row # i
SomeJobFor(i) ==
    \/ \E j \in DOMAIN input_args : input_args[j].row = i
    \/ \E j \in DOMAIN ran : ran[j].row = i
\* The row's directories as the tiling loop found them.
Complete(i) ==
    recon[i].img = recon[i].exp /\ (Labeled(i) => recon[i].gt = recon[i].exp)
OverComplete(i) ==
    recon[i].img > recon[i].exp /\ (Labeled(i) => recon[i].gt > recon[i].exp)

\* C1: a row whose image tiles (and, if it has a label source, label tiles)
\* number exactly the expected count is decided 'skip', and no tiling job for
\* it is run or put on the pool's list, in sequential and in parallel mode.
C1_CompleteIsSkipped ==
    \A i \in Rows :
        (Decided(i) /\ Complete(i)) => (recon[i].state = "skip" /\ NoJobFor(i))

\* Scenario A with a second row that does get tiled.
C1_Witness ==
    \E i \in Rows :
        /\ Decided(i) /\ Labeled(i) /\ Complete(i) /\ recon[i].state = "skip"
        /\ ~no_gt /\ Len(ran) > 0 /\ pc = "truncate"

\* C2: a row with more image tiles than expected (and more label tiles, if it
\* has a label source) is skipped and reported, with or without a label source.
C2_OverCompleteIsSkipped ==
    \A i \in Rows :
        (Decided(i) /\ OverComplete(i)) =>
            (recon[i].state = "skip" /\ recon[i].log = "critical" /\ NoJobFor(i))

\* C3: a row that is neither complete nor over-complete gets a tiling job (run
\* or put on the pool's list), and is reported unless its directories are empty.
C3_IncompleteIsTiled ==
    \A i \in Rows :
        (Decided(i) /\ ~Complete(i) /\ ~OverComplete(i)) =>
            /\ recon[i].state = "tile"
            /\ SomeJobFor(i)
            /\ (recon[i].img > 0 \/ (Labeled(i) /\ recon[i].gt > 0))
                   => recon[i].log = "critical"

\* C3 with the rows that main treats as their label source says: it holds there.
C3_WhenTreatedAsLabeled ==
    \A i \in Rows :
        (Decided(i) /\ (Labeled(i) <=> ~no_gt) /\ ~Complete(i) /\ ~OverComplete(i)) =>
            /\ recon[i].state = "tile"
            /\ SomeJobFor(i)
            /\ (recon[i].img > 0 \/ (Labeled(i) /\ recon[i].gt > 0))
                   => recon[i].log = "critical"

\* q is the ceiling of a / b, for b > 0.
IsCeil(q, a, b) == q * b >= a /\ (q - 1) * b < a

\* C4: the expected count the checker returns is
\* (1 + ceil((W-T)/S)) * (1 + ceil((H-T)/S)), with S = T when no stride is
\* given, for S = T and for S < T.
C4_ExpectedCount ==
    probe.fn = "tiling_checker" /\ probe.called =>
        LET S == IF probe.tile_stride = 0 THEN probe.tile_size ELSE probe.tile_stride
            R == (0 - MaxTileSize - 1)..(MaxDim + 1)
        IN \E qx \in R, qy \in R :
              /\ IsCeil(qx, probe.width - probe.tile_size, S)
              /\ IsCeil(qy, probe.height - probe.tile_size, S)
              /\ probe.out[2] = (1 + qx) * (1 + qy)

\* An overlapping grid whose last tile hangs over the raster's edge.
C4_Witness ==
    /\ probe.fn = "tiling_checker" /\ probe.called
    /\ probe.tile_stride > 0 /\ probe.tile_stride < probe.tile_size
    /\ probe.width > probe.tile_size
    /\ (probe.width - probe.tile_size) % probe.tile_stride # 0
    /\ probe.out[2] > 2

\* ---------------------------------------------------- assembly: one pair
\* The loop is at an image / label pair that passes the size filter.
AtPair ==
    /\ pc = "assemble_tile"
    /\ listing.gts > 0
    /\ st_size(CurTile) >= params.min_raster_tile_size
TrainPair == AtPair /\ list_data_prep[idx].dataset = "trn"
TestPair == AtPair /\ list_data_prep[idx].dataset = "tst"
AboveThreshold == annot_permille(CurTile) >= 10 * params.min_annot_perc
\* This step appends exactly one line, for the current pair, to list d.
GetsLine(d) ==
    /\ Len(dataset_files'[d]) = Len(dataset_files[d]) + 1
    /\ SubSeq(dataset_files'[d], 1, Len(dataset_files[d])) = dataset_files[d]
    /\ dataset_files'[d][Len(dataset_files'[d])].text =
           <<CurTile, [dir |-> CurMapDir, k |-> k], annot_permille(CurTile) \div 10>>
Untouched(d) == dataset_files'[d] = dataset_files[d]

\* C5: a train pair that passes the size filter and the threshold takes exactly
\* one draw in 1..99 and goes to the validation list iff draw < val_percent,
\* else to the train list.
C5_DrawDecidesSplit ==
    [][(TrainPair /\ AboveThreshold) =>
          LET draw == random_draw(params.seed, rng_pos)
          IN /\ rng_pos' = rng_pos + 1
             /\ draw \in 1..99
             /\ Untouched("tst")
             /\ IF draw < params.val_percent
                THEN GetsLine("val") /\ Untouched("trn")
                ELSE GetsLine("trn") /\ Untouched("val")]_vars

\* Draws on both sides of val_percent were taken in one run.
C5_Witness ==
    /\ rng_pos >= 2
    /\ Len(dataset_files["val"]) > 0
    /\ Len(dataset_files["trn"]) > 0

\* C6: every train pair that passes the size filter adds one to the 'total'
\* counter of the train bucket, whatever the threshold and the draw decide, and
\* one to the 'kept' counter of the list it is written to.
C6_TrainTotalCounts ==
    [][TrainPair =>
          /\ datasets_total' = [datasets_total EXCEPT !["trn"] = @ + 1]
          /\ \A d \in DatasetSet :
                datasets_kept'[d] = datasets_kept[d] + (IF GetsLine(d) THEN 1 ELSE 0)]_vars

\* C7: a train pair below min_annotated_percent writes no line, takes no draw,
\* moves no 'kept' counter, and adds one to the train 'total' counter.
C7_BelowThresholdDropped ==
    [][(TrainPair /\ ~AboveThreshold) =>
          /\ dataset_files' = dataset_files
          /\ rng_pos' = rng_pos
          /\ datasets_kept' = datasets_kept
          /\ datasets_total' = [datasets_total EXCEPT !["trn"] = @ + 1]]_vars

\* Scenario B: a threshold of 15 and a train pair below it has been counted.
C7_Witness ==
    /\ params.min_annot_perc = 15
    /\ pc \in {"assemble_open", "assemble_tile", "done"}
    /\ datasets_total["trn"] > datasets_kept["trn"]

\* C8: a test pair that passes the size filter writes one line to the test
\* list whatever its coverage, is never moved to another list, and adds one to
\* the test 'kept' and 'total' counters.
C8_TestAlwaysKept ==
    [][TestPair =>
          /\ GetsLine("tst") /\ Untouched("trn") /\ Untouched("val")
          /\ rng_pos' = rng_pos
          /\ datasets_kept' = [datasets_kept EXCEPT !["tst"] = @ + 1]
          /\ datasets_total' = [datasets_total EXCEPT !["tst"] = @ + 1]]_vars

\* Scenario C: a test line with coverage 0 under a threshold of 15.
C8_Witness ==
    /\ params.min_annot_perc = 15
    /\ \E j \in DOMAIN dataset_files["tst"] :
          LET t == dataset_files["tst"][j].text IN Len(t) = 3 /\ t[3] = 0

\* The row's tile counts differ and label tiles are not entirely absent.
AtMismatch ==
    /\ pc = "assemble_open"
    /\ files[CurMapDir] # 0
    /\ files[out_tiling_dir(list_data_prep[idx].dataset, aoi_name(list_data_prep[idx]),
                            "sat_img")] # files[CurMapDir]
\* The exception's message carries something that tells which row it is about.
NamesRow(e) ==
    "msg" \in DOMAIN e /\ DOMAIN e.msg \cap {"tif", "gpkg", "aoi", "row"} # {}

\* C9: differing image and label tile counts at assembly raise an error that
\* ends the run and identifies the row.
C9_MismatchAbortsNamingRow ==
    [][AtMismatch => (pc' = "aborted" /\ err'.kind = "IOError" /\ NamesRow(err'))]_vars

\* C9 without the identification: the run does end with the IOError.
C9_MismatchAborts ==
    [][AtMismatch => (pc' = "aborted" /\ err'.kind = "IOError")]_vars

\* C10: once a run is past the unlinking of the dataset lists, each list holds
\* only lines of this run; nothing of an earlier run is left in any of them.
C10_ListsHoldThisRunOnly ==
    (pc \in {"assemble_open", "assemble_tile", "done"} \/ err.kind = "IOError") =>
        \A d \in DatasetSet : \A j \in DOMAIN dataset_files[d] :
            dataset_files[d][j].wrote_in = run

\* A second run that wrote train and validation lines and finished.
C10_Witness ==
    /\ run = 2 /\ pc = "done"
    /\ Len(dataset_files["val"]) > 0
    /\ Len(dataset_files["trn"]) > 0

\* The tiling loop and the pool are behind this run.
PastTiling == pc \in {"truncate", "assemble_open", "assemble_tile", "done"}
\* Row i's job was started in this run.
JobStarted(i) == \E j \in DOMAIN ran : ran[j].row = i
\* A job's exception is contained: it is logged, it does not end the run, and
\* every row decided 'tile' has had its job started once tiling is over.
FailuresContained ==
    /\ \A i \in job_errors : i \in logged_errors
    /\ (pc = "aborted" => err.kind # "OSError")
    /\ (PastTiling \/ pc = "aborted") =>
           \A i \in Rows : recon[i].state = "tile" => JobStarted(i)

\* C11: in sequential and in parallel mode, a tiling job that raises is caught
\* and logged, the other needed jobs still run, and the run goes on.
C11_JobFailureIsolated == FailuresContained

\* C11 in sequential mode only, where the handler of lines 357-360 is around
\* the job.
C11_SequentialIsolated == ~params.parallel => FailuresContained

\* C12: when a row's tiling job failed, the run still gets to the assembly and
\* ends there with an error; it never ends normally with that row left out of
\* the lists or written into them without masks.
C12_FailedTilingFailsLoudly ==
    /\ (pc = "done" => job_errors = {})
    /\ (pc = "aborted" /\ job_errors # {} => err.at = "assemble")

\* C13: in parallel mode, no tiling job has started as long as a row is still
\* without its decision: the loop over the rows is finished before the pool
\* runs the first job.
C13_DecisionsBeforeJobs ==
    (params.parallel /\ ran # <<>>) =>
        /\ pc \notin {"validate", "tile"}
        /\ \A i \in Rows : Decided(i)

\* The pool has run the first of two collected jobs.
C13_Witness ==
    /\ params.parallel /\ pc = "pool"
    /\ Len(input_args) = 2 /\ Len(ran) = 1

\* The jobs dispatched in this run: run in the loop or collected for the pool.
Dispatched == {ran[j] : j \in DOMAIN ran} \cup {input_args[j] : j \in DOMAIN input_args}

\* C14: any two different jobs dispatched in a run write to different image
\* directories and to different label directories.
C14_DistinctDestinations ==
    \A j1 \in Dispatched : \A j2 \in Dispatched :
        j1.row # j2.row =>
            /\ j1.out_img_dir # j2.out_img_dir
            /\ (j1.out_label_dir # NoDir => j1.out_label_dir # j2.out_label_dir)

\* C14 for rows that differ in dataset or in area name.
C14_DistinctWhenKeysDiffer ==
    \A j1 \in Dispatched : \A j2 \in Dispatched :
        LET r1 == list_data_prep[j1.row]
            r2 == list_data_prep[j2.row]
        IN (j1.row # j2.row /\ <<r1.dataset, aoi_name(r1)>> # <<r2.dataset, aoi_name(r2)>>) =>
              /\ j1.out_img_dir # j2.out_img_dir
              /\ (j1.out_label_dir # NoDir => j1.out_label_dir # j2.out_label_dir)

\* ---- the tiling phase of one run, as a function of the mode
\* Lines 298-349 for row i on the directories fs: the job of the row, and
\* whether it is needed.
job_of(i) ==
    LET info == list_data_prep[i]
    IN [fn |-> "tiling", row |-> i, src_img |-> info.tif,
        meta |-> [width |-> info.width, height |-> info.height],
        out_img_dir |-> out_tiling_dir(info.dataset, aoi_name(info), "sat_img"),
        tile_size |-> params.samples_size, resize |-> params.resize,
        out_label_dir |-> IF no_gt THEN NoDir
                          ELSE out_tiling_dir(info.dataset, aoi_name(info), "map_img"),
        src_label |-> info.gpkg]
needs_tiling(i, fs) ==
    LET info == list_data_prep[i]
        job == job_of(i)
        chk == tiling_checker(info, fs[job.out_img_dir], params.samples_size, 0)
        act_gt_tiles == IF no_gt THEN 0
                        ELSE tiling_checker(info, fs[job.out_label_dir],
                                            params.samples_size, 0)[1]
    IN tiling_decision(no_gt, chk[1], act_gt_tiles, chk[2]).do_tile
job_raises(job) == list_data_prep[job.row].job_fault # "none"

\* Sequential mode, lines 296-360: each row is decided on the directories as
\* the jobs of the rows before it left them; a job's OSError is logged.
RECURSIVE sequential_phase(_, _, _)
sequential_phase(i, fs, jobs) ==
    IF i > Len(list_data_prep)
    THEN [jobs |-> jobs, files |-> fs, aborts |-> FALSE]
    ELSE IF ~needs_tiling(i, fs) THEN sequential_phase(i + 1, fs, jobs)
    ELSE IF job_raises(job_of(i)) THEN sequential_phase(i + 1, fs, Append(jobs, job_of(i)))
    ELSE sequential_phase(i + 1, tiling(fs, job_of(i)), Append(jobs, job_of(i)))

\* Parallel mode, lines 296-365: every row is decided on the directories as
\* they were at the start; pool.map raises a job's exception again in main.
RECURSIVE parallel_jobs(_, _)
parallel_jobs(i, fs) ==
    IF i > Len(list_data_prep) THEN <<>>
    ELSE IF needs_tiling(i, fs) THEN <<job_of(i)>> \o parallel_jobs(i + 1, fs)
    ELSE parallel_jobs(i + 1, fs)
RECURSIVE run_all(_, _)
run_all(jobs, fs) ==
    IF jobs = <<>> THEN fs
    ELSE run_all(Tail(jobs), IF job_raises(Head(jobs)) THEN fs ELSE tiling(fs, Head(jobs)))
parallel_phase(fs) ==
    LET jobs == parallel_jobs(1, fs)
    IN [jobs |-> jobs, files |-> run_all(jobs, fs),
        aborts |-> \E j \in DOMAIN jobs : job_raises(jobs[j])]

\* The tiling phase of this run is over: normally, or by a job's exception.
TilingOver == pc = "truncate" \/ (pc = "aborted" /\ err.at = "pool")
\* What this run did in its tiling phase.
ThisPhase ==
    [jobs |-> IF params.parallel THEN input_args ELSE ran, files |-> files,
     aborts |-> pc = "aborted"]
\* Two tiling phases agree: same jobs in the same order, same failure
\* behaviour, and the same tiles when they ran to the end.
PhasesAgree(p, q) ==
    /\ p.jobs = q.jobs
    /\ p.aborts = q.aborts
    /\ (~p.aborts => p.files = q.files)

\* The two functions give what the actions of the run's own mode do.
PhaseFunctionsMatchRun ==
    TilingOver =>
        PhasesAgree(ThisPhase, IF params.parallel THEN parallel_phase(files0)
                               ELSE sequential_phase(1, files0, <<>>))

\* C15: on the same rows and the same directories, the run in one mode does
\* what the other mode does: the same jobs with the same arguments in the
\* order of the rows, the same tiles at the end, the same failure behaviour.
C15_ModesAgree ==
    TilingOver =>
        PhasesAgree(ThisPhase, IF params.parallel THEN sequential_phase(1, files0, <<>>)
                               ELSE parallel_phase(files0))

\* C15 for rows with directories of their own and jobs that do not raise.
C15_AgreeOnDisjointSound ==
    (/\ TilingOver
     /\ \A i \in Rows : list_data_prep[i].job_fault = "none"
     /\ \A i \in Rows : \A j \in Rows :
            i # j => job_of(i).out_img_dir # job_of(j).out_img_dir) =>
        PhasesAgree(ThisPhase, IF params.parallel THEN sequential_phase(1, files0, <<>>)
                               ELSE parallel_phase(files0))

\* This run and the one before it both ended normally, on the same rows and
\* parameters, and assembled from the same tiles.
SameTilesAsBefore ==
    /\ run >= 2 /\ pc = "done"
    /\ prev.ended = "done"
    /\ prev.files = files

\* C16: two runs on the same rows, the same tiles and the same seed put every
\* kept train pair into the same list and write identical lists.
C16_SameSeedSameLists ==
    SameTilesAsBefore => list_texts(dataset_files) = prev.lists

\* Both runs took at least two draws and wrote train and validation lines.
C16_Witness ==
    /\ SameTilesAsBefore
    /\ rng_pos >= 2
    /\ Len(dataset_files["val"]) > 0
    /\ Len(dataset_files["trn"]) > 0

\* ---- filter_gdf
Filtered == probe.fn = "filter_gdf" /\ probe.called
\* The collection filter_gdf returned, before the caller touched it.
Returned == probe.heap[probe.ret]
Answered == Filtered /\ probe.ret # 0 /\ ~probe.mutated

\* C17: with no attribute field or no accepted values, filter_gdf returns its
\* input as it is, without raising.
C17_NoFilterIsIdentity ==
    (Filtered /\ (probe.attr_field = NoField \/ probe.attr_vals = <<>>)) =>
        /\ probe.raised = "none"
        /\ probe.ret # 0
        /\ (~probe.mutated => Returned = probe.given)

\* A field that is a column, features, and no accepted values.
C17_Witness ==
    /\ Answered
    /\ probe.attr_field \in probe.given.columns
    /\ probe.attr_vals = <<>>
    /\ Len(probe.given.rows) = 2

\* What a value stands for as a number: an int itself, a str the int whose
\* decimal text it is.
number_of(val) ==
    IF val.t = "int" THEN val.v ELSE CHOOSE n \in DOMAIN Decimal : Decimal[n] = val.v
\* The features whose attribute is one of the accepted values, types set aside.
same_typed_subset(gdf, attr_vals) ==
    SelectSeq(gdf.rows, LAMBDA f :
        \E j \in DOMAIN attr_vals : number_of(f.val) = number_of(attr_vals[j]))
\* filter_gdf found the column and was given accepted values.
FilterApplied ==
    /\ Answered
    /\ probe.attr_field # NoField /\ probe.attr_vals # <<>>
    /\ ~probe.logged

\* C18: whatever the types, numbers in the collection with accepted strings or
\* strings in the collection with accepted numbers, the subset is the one that
\* same-typed matching gives.
C18_TypeAgnosticBothWays ==
    FilterApplied => Returned.rows = same_typed_subset(probe.given, probe.attr_vals)

\* C18, amended: with accepted values given as ints, a collection that holds
\* the attribute as ints or as their decimal strings is filtered to the
\* same-typed subset; accepted strings are not matched against ints.
C18_IntValuesMatchBothTypes ==
    (FilterApplied /\ \A j \in DOMAIN probe.attr_vals : probe.attr_vals[j].t = "int") =>
        Returned.rows = same_typed_subset(probe.given, probe.attr_vals)

\* An accepted int picked a feature that holds it as a string, and another
\* feature was left out.
C18_Witness ==
    /\ FilterApplied
    /\ \A j \in DOMAIN probe.attr_vals : probe.attr_vals[j].t = "int"
    /\ Len(Returned.rows) = 1
    /\ Returned.rows[1].val.t = "str"
    /\ Len(probe.given.rows) = 2

\* C19: what filter_gdf returns is a copy of its own on every return path:
\* a change the caller makes to it leaves the collection passed in as it was.
C19_ResultIsIndependentCopy ==
    (probe.fn = "filter_gdf" /\ probe.mutated) => probe.heap[1] = probe.given

\* C19 on the path that filters, which ends in copy(deep=True).
C19_FilteredIsCopy ==
    (probe.fn = "filter_gdf" /\ probe.mutated /\ probe.ret = 2) =>
        probe.heap[1] = probe.given

\* filter_gdf was asked to filter on a field that is not a column.
FieldNotAColumn ==
    /\ Filtered
    /\ probe.attr_field # NoField /\ probe.attr_vals # <<>>
    /\ probe.attr_field \notin probe.given.columns
\* The segment after the last '/' of the field asked for.
Segment == <<probe.attr_field[Len(probe.attr_field)]>>
\* The features one of the accepted values matches.
Matching ==
    SelectSeq(probe.given.rows, LAMBDA f :
        \E j \in DOMAIN probe.attr_vals : value_matches(f.val, probe.attr_vals[j]))

\* C20: a field that is not a column is tried again as its last '/'-separated
\* segment; if that is no column either, nothing is raised, an error is logged
\* and the whole input comes back unfiltered.
C20_FallbackThenUnfiltered ==
    FieldNotAColumn =>
        /\ probe.raised = "none"
        /\ probe.ret # 0
        /\ probe.logged = (Segment \notin probe.given.columns)
        /\ (~probe.mutated =>
               Returned.rows = IF Segment \in probe.given.columns THEN Matching
                               ELSE probe.given.rows)

\* The last segment is a column and the filter on it left a feature out.
C20_Witness ==
    /\ FieldNotAColumn /\ ~probe.mutated
    /\ Segment \in probe.given.columns
    /\ Len(probe.given.rows) = 2
    /\ Len(Returned.rows) = 1

\* Neither the field nor its last segment is a column, and there are features
\* the accepted values do not match.
C20_MissingSeen ==
    /\ FieldNotAColumn /\ ~probe.mutated
    /\ Segment \notin probe.given.columns
    /\ Len(Matching) < Len(Returned.rows)

\* ---- assembly of rows without label tiles
\* The assembly loop is at an image tile of a row that has image tiles and no
\* label tile, and the tile is not below the minimum file size.
ImageryOnlyStep ==
    /\ pc = "assemble_tile"
    /\ listing.gts = 0
    /\ st_size(CurTile) >= params.min_raster_tile_size

\* C21: such a tile gets exactly one line, the image path alone, in the list of
\* the dataset its row declares; no other list changes, no draw is taken, no
\* counter moves and no mask is burned.
C21_ImageryOnlyRouted ==
    [][ImageryOnlyStep =>
          LET d == list_data_prep[idx].dataset
          IN /\ dataset_files'[d] =
                    Append(dataset_files[d], [text |-> <<CurTile>>, wrote_in |-> run])
             /\ \A e \in DatasetSet \ {d} : dataset_files'[e] = dataset_files[e]
             /\ UNCHANGED <<rng_pos, datasets_kept, datasets_total, masks>>]_vars

\* A run with a minimum file size ended with an image-only line of a train row.
C21_Witness ==
    /\ pc = "done"
    /\ params.min_raster_tile_size > 0
    /\ \E j \in DOMAIN dataset_files["trn"] :
          /\ Len(dataset_files["trn"][j].text) = 1
          /\ dataset_files["trn"][j].wrote_in = run

\* ---- CRS mismatch
\* Row i has a label source whose CRS differs from its raster's.
CrsMismatch(i) == Labeled(i) /\ ~list_data_prep[i].crs_ok
\* A job of row i was started with its label source and a label directory.
LabelTilesCut(i) ==
    \E j \in DOMAIN ran :
        /\ ran[j].row = i /\ i \notin job_errors
        /\ ran[j].out_label_dir # NoDir /\ ran[j].src_label # NoLabel
\* A mask was burned in this run for an image tile of row i.
MaskBurned(i) ==
    \E t \in masks :
        t.dir = out_tiling_dir(list_data_prep[i].dataset, aoi_name(list_data_prep[i]),
                               "sat_img")

\* C22: a CRS mismatch found at validation does not end the run, and the row
\* is not paired with its label source any further: no label tiles are cut
\* from it and no mask is burned for the row.
C22_MismatchHaltsPairing ==
    \A i \in Rows : CrsMismatch(i) =>
        /\ (pc = "aborted" => err.at # "validate")
        /\ ~LabelTilesCut(i)
        /\ ~MaskBurned(i)

\* C22, the first half: the mismatch does not end the run at validation.
C22_MismatchDoesNotAbort ==
    \A i \in Rows : CrsMismatch(i) => (pc = "aborted" => err.at # "validate")

\* ---- dataset value of a row
\* Some row's dataset is neither "trn" nor "tst".
BadDataset == \E i \in Rows : list_data_prep[i].dataset \notin {"trn", "tst"}

\* C23: with such a row the run ends in the validation loop with a ValueError:
\* it never gets past validation, no tiling job is collected or run, no tile
\* is written and no dataset list is written.
C23_BadDatasetAbortsAtValidation ==
    BadDataset =>
        /\ pc \in {"validate", "aborted"}
        /\ (pc = "aborted" => err = [kind |-> "ValueError", at |-> "validate"])
        /\ ran = <<>> /\ input_args = <<>>
        /\ files = files0
        /\ \A d \in DatasetSet : dataset_files[d] = <<>>

\* The second of two rows has the bad value, and the run has ended on it.
C23_Witness ==
    /\ pc = "aborted"
    /\ Len(list_data_prep) = 2
    /\ list_data_prep[1].dataset \in {"trn", "tst"}
    /\ list_data_prep[2].dataset \notin {"trn", "tst"}

\* ---- resize factor
\* samples_size is not a multiple of the resize factor (0: no factor given).
NotDivisible == params.resize # 0 /\ params.samples_size % params.resize # 0

C24_ErrorSeen ==
    /\ params.resize = 3
    /\ pc = "aborted" /\ err.kind = "ValueError"

\* ---- tiling_checker and its directory
\* out_tiled_dir as it was before the first call.
DirBefore == [exists |-> probe.dir_exists, n |-> probe.nb_in_dir]

\* C25: tiling_checker changes nothing: the directory is after a call what it
\* was before, a directory that does not exist gives 0 actual tiles and is not
\* created, and a second call returns the pair the first call returned.
C25_CheckerChangesNothing ==
    (probe.fn = "tiling_checker" /\ probe.called) =>
        /\ probe.dir = DirBefore
        /\ (~probe.dir_exists => probe.out[1] = 0)
        /\ (probe.dir.exists => probe.out[1] = probe.dir.n)
        /\ (probe.again => probe.out2 = probe.out)

\* Two calls on a directory that does not exist, for a raster of several tiles.
C25_Witness ==
    /\ probe.fn = "tiling_checker" /\ probe.again
    /\ ~probe.dir_exists
    /\ probe.out[2] > 1

\* ---- tiles below the minimum file size
\* The assembly loop is at an image tile smaller than min_raster_tile_size.
TooSmallStep ==
    /\ pc = "assemble_tile"
    /\ st_size(CurTile) < params.min_raster_tile_size

\* C26: such a tile, of a pair or of a row without label tiles, leaves no
\* trace: no line in any list, no mask, no draw, no 'kept' and no 'total'.
C26_TooSmallIsDiscarded ==
    [][TooSmallStep =>
          UNCHANGED <<dataset_files, masks, rng_pos, datasets_kept, datasets_total>>]_vars

\* The loop over the pairs of a row has passed its second tile, which is
\* below the minimum, and is at the third.
C26_Witness ==
    /\ pc = "assemble_tile"
    /\ listing.gts > 0
    /\ k = 3
    /\ st_size([dir |-> CurTile.dir, k |-> 2]) < params.min_raster_tile_size

\* The same for a row without label tiles.
C26_ImageryOnlySeen ==
    /\ pc = "assemble_tile"
    /\ listing.gts = 0
    /\ k = 3
    /\ st_size([dir |-> CurTile.dir, k |-> 2]) < params.min_raster_tile_size

\* ---- a row's own label source
\* The decision lines 303-347 take for row i when it is treated as labeled.
DecisionAsLabeled(i) ==
    IF tiling_decision(FALSE, recon[i].img, recon[i].gt, recon[i].exp).do_tile
    THEN "tile" ELSE "skip"

\* C27: a row with a label source is treated as labeled whatever the other
\* rows are: its decision counts its label tiles, and its job gets its label
\* directory and its label source.
C27_LabeledByOwnSource ==
    \A i \in Rows : (Decided(i) /\ Labeled(i)) =>
        /\ recon[i].state = DecisionAsLabeled(i)
        /\ \A job \in Dispatched : job.row = i =>
               /\ job.src_label = list_data_prep[i].gpkg
               /\ job.out_label_dir =
                     out_tiling_dir(list_data_prep[i].dataset,
                                    aoi_name(list_data_prep[i]), "map_img")

\* C27 when every row has a label source.
C27_HoldsWhenAllLabeled ==
    (\A i \in Rows : Labeled(i)) => C27_LabeledByOwnSource

\* ---- counters and lists
InAssembly == pc \in {"assemble_open", "assemble_tile", "done"}
\* The lines with image, mask and percentage that this run wrote to a list.
LabeledLines(d) ==
    {j \in DOMAIN dataset_files[d] :
        /\ Len(dataset_files[d][j].text) = 3
        /\ dataset_files[d][j].wrote_in = run}

\* C28: all through the assembly, for each of trn, val and tst, the 'kept'
\* counter is the number of labeled lines this run has written to that list,
\* and it is never above the 'total' counter of the same dataset.
C28_KeptCountsLines ==
    InAssembly =>
        \A d \in DatasetSet :
            /\ Cardinality(LabeledLines(d)) = datasets_kept[d]
            /\ datasets_kept[d] <= datasets_total[d]

\* A run ended with validation lines, train lines and a train pair that was
\* counted and not kept.
C28_Witness ==
    /\ pc = "done"
    /\ datasets_kept["val"] > 0
    /\ datasets_kept["trn"] > 0
    /\ datasets_kept["trn"] < datasets_total["trn"]

\* Every line of every list, as <<dataset, position>>.
AllLines == UNION {{<<d, j>> : j \in DOMAIN dataset_files[d]} : d \in DatasetSet}
ImageOf(x) == dataset_files[x[1]][x[2]].text[1]

\* C29: in one run an image tile is in at most one line over all lists, never
\* in two lists and never twice in one; and the validation list holds tiles
\* of train rows only.
C29_TileListedOnce ==
    InAssembly =>
        /\ \A x \in AllLines : \A y \in AllLines : x # y => ImageOf(x) # ImageOf(y)
        /\ \A j \in DOMAIN dataset_files["val"] :
               dataset_of_tile(dataset_files["val"][j].text[1]) \in {"trn", "train"}

\* C29 for rows with directories of their own.
C29_HoldsOnOwnDirectories ==
    (\A i \in Rows : \A j \in Rows :
        i # j => job_of(i).out_img_dir # job_of(j).out_img_dir) => C29_TileListedOnce

\* ---- the tile size of the checker and of the tiler
\* C30: the checker computes the expected count with the tile size the job
\* cuts the raster with, the source size for the resize factor, so a row whose
\* job went through in one run is decided 'skip' in the next.
C30_CheckerUsesCuttingSize ==
    /\ \A i \in Rows : \A job \in Dispatched :
           (Decided(i) /\ job.row = i /\ ~NotDivisible) =>
               /\ recon[i].chk_tile_size = get_src_tile_size(job.tile_size, job.resize)
               /\ recon[i].chk_stride = 0
    /\ \A i \in Rows :
           (run >= 2 /\ Decided(i) /\ i \in prev.tiled) => recon[i].state = "skip"

\* C30 without a resize factor, or with factor 1: the two sizes are the same.
C30_SameSizeWithoutResize ==
    \A i \in Rows : \A job \in Dispatched :
        (Decided(i) /\ job.row = i /\ params.resize \in {0, 1}) =>
            recon[i].chk_tile_size = get_src_tile_size(job.tile_size, job.resize)

====
